---- MODULE Spec2Model ----
(***************************************************************************)
(* State-machine model of the batch-tracker indexer                        *)
(* (indexer/src/batch_indexer.rs, indexer/src/db.rs) and of the accounting *)
(* query of the graphql service (graphql/src/schema.rs,                    *)
(* graphql/src/get_accounting_list.rs, graphql/src/models/accounting.rs).  *)
(*                                                                         *)
(* The durable store (tables `batch` and `status`), the in-memory loop     *)
(* state of BatchIndexer and the two chains the indexer reads (L1 logs and *)
(* receipts, L2 historical balances) are the state.  One action per step   *)
(* of run_indexing_loop; the two processors advance one log (proposal) or  *)
(* one referenced batch id (proof) per step, because every store write is  *)
(* a point at which the process can be terminated.                         *)
(***************************************************************************)
EXTENDS Integers, Sequences, FiniteSets

(***************************************************************************)
(* Bounds of the model.                                                    *)
(***************************************************************************)
\* L1 blocks mined in a behaviour
MaxHead == 6
\* batches proposed and BatchesProved events emitted in a behaviour: inbox
\* transactions are rarer than blocks
MaxBatch == MaxHead \div 3
MaxProofs == MaxHead \div 3

\* Widths of the integer types, scaled down: the bits of i64, of u128 and
\* of U256.  u64 has one bit more than i64; the order of the widths is the
\* code's.
I64Bits == 4
U128Bits == 6
U256Bits == 7

\* addresses that send transactions, propose batches and receive L2 fees
Addr == {"a1", "a2"}
\* gas used by a transaction (the gas price is 1)
GasUsed == {1, 2, 3}
\* L2 fees credited to the coinbase over one batch
L2Fees == {2, 3, 4}
\* configured INDEXING_STEP values
IndexingSteps == {1, 2}
\* provingWindow values of the inbox contract
ProvingWindows == {1, 2, 3}

(***************************************************************************)
(* Values of the stored rows.                                              *)
(***************************************************************************)
\* Option<T>: None is the empty sequence, Some(x) a sequence of one element
None == <<>>
Some(x) == <<x>>
IsSome(o) == Len(o) = 1
Unwrap(o) == o[1]

\* Address::to_string and Address::from_str (calculate_l2_fee_earned)
AddressToString(a) == <<"0x", a>>
AddressFromStr(s) == s[2]

\* TxHash::to_string
TxHashToString(h) == <<"0x", h>>

\* u128::to_string: the decimal digits, most significant first
RECURSIVE U128ToString(_)
U128ToString(n) ==
    IF n < 10 THEN <<n>> ELSE Append(U128ToString(n \div 10), n % 10)

\* str::parse::<u128> of a decimal string
RECURSIVE ParseU128(_)
ParseU128(s) ==
    IF Len(s) = 0 THEN 0
    ELSE 10 * ParseU128(SubSeq(s, 1, Len(s) - 1)) + s[Len(s)]

\* the minimum in the place of the maximum
Min(a, b) == IF a <= b THEN a ELSE b

Max(a, b) == IF a >= b THEN a ELSE b

\* i64::MAX, u64::MAX, u128::MAX and 2^256 at the scaled widths
I64Max == 2 ^ (I64Bits - 1) - 1
U64Modulus == 2 ^ I64Bits
U128Max == 2 ^ U128Bits - 1
U256Modulus == 2 ^ U256Bits

\* a cast `as i64` in the place of try_into: every value passes
FitsAnyWidth(v) == TRUE

\* u64 -> i64 by try_into succeeds
FitsI64(v) == v <= I64Max

\* U256 -> u128 by try_into: None is the Err
TryIntoU128(v) == IF v <= U128Max THEN Some(v) ELSE None

\* U256 - U256: the Sub of ruint's Uint wraps
U256Sub(a, b) == (a - b + U256Modulus) % U256Modulus

\* u64 - u64: a build with overflow checks panics on underflow (None), a
\* build without them wraps
U64Sub(a, b) ==
    IF b <= a THEN {Some(a - b)} ELSE {None, Some(a - b + U64Modulus)}

VARIABLES
    l1_chain,          \* the L1 chain: l1_chain[n] is block n
    batch,             \* table batch: batch_id -> row
    status,            \* table status: None, or Some(the row with id 0)
    pc,                \* where the process is: "down" when it is not running
    config,            \* Config and the contract's provingWindow
    indexed_l1_block,  \* BatchIndexer.indexed_l1_block
    from_block,        \* run_indexing_loop: from_block
    to_block,          \* run_indexing_loop: to_block
    logs,              \* the logs the running processor still has to handle
    batch_ids,         \* index_batch_proved: ids of the current log left
    proposed,          \* index_batch_proposed: (propsed_batch_id, proposed_block_id)
    proved,            \* index_batch_proved: (proved_batch_id, proved_block_id)
    handled,           \* history: ids whose row index_batch_proved updated
    sleep_secs,        \* the duration of the sleep the loop is in
    exit,              \* how the process last ended: "panic" or "killed"
    last_pass,         \* history: the last completed pass over a window
    loaded,            \* history: the progress BatchIndexer::new loaded
    scanned,           \* history: the blocks each processor asked get_logs for
    completed,         \* history: the blocks of the windows both processors finished
    request,           \* the query service: the request being answered
    response           \* the query service: the answer to it

vars == <<l1_chain, batch, status, pc, config, indexed_l1_block, from_block,
          to_block, logs, batch_ids, proposed, proved, handled, sleep_secs,
          exit, last_pass, loaded, scanned, completed, request, response>>

(***************************************************************************)
(* The chains.  An L1 block holds at most one proposeBatch and one         *)
(* proveBatches transaction; l1_chain[n] = [proposed, proved] gives both   *)
(* as options.  A transaction is its receipt together with its decoded     *)
(* log.                                                                    *)
(***************************************************************************)
\* block.header.timestamp of block n
Timestamp(n) == n

EmptyBlock == [proposed |-> None, proved |-> None]

\* the blocks of `chain` that hold a transaction of `kind`
TxBlocks(chain, kind) ==
    {n \in 1..Len(chain) : IsSome(chain[n][kind])}

\* a proposeBatch transaction in block n: its receipt and its BatchProposed log
ProposeTx(n, id, from, proposer, coinbase, gas, fee) ==
    [transaction_hash |-> <<n, "propose">>, block_number |-> n,
     from |-> from, gas_used |-> gas, effective_gas_price |-> 1,
     blob_gas_used |-> Some(1), blob_gas_price |-> Some(1),
     batchId |-> id, proposer |-> proposer, coinbase |-> coinbase,
     proposedAt |-> Timestamp(n), lastBlockId |-> id, blocks |-> 1,
     l2_fee |-> fee, l2_genesis |-> 0]

\* a proveBatches transaction in block n: its receipt and its BatchesProved log
ProveTx(n, ids, from, gas) ==
    [transaction_hash |-> <<n, "prove">>, block_number |-> n,
     from |-> from, gas_used |-> gas, effective_gas_price |-> 1,
     blob_gas_used |-> None, blob_gas_price |-> None, batchIds |-> ids]

\* the lists of batch ids one BatchesProved event can carry: ids of proposed
\* batches, in ascending order
IdLists(n) ==
    {<<i>> : i \in 1..n} \cup {<<i, j>> \in (1..n) \X (1..n) : i < j}

\* what a block mined on top of `chain` can hold: the next batch, and a proof
\* of batches proposed up to this block
Blocks(chain, n) ==
    LET ids == Cardinality(TxBlocks(chain, "proposed"))
        proposals ==
            IF ids < MaxBatch
            THEN {None, Some(ProposeTx(n, ids + 1, "a2", "a1", "a1", 1, 3))}
            ELSE {None}
        Proofs(p) ==
            IF Cardinality(TxBlocks(chain, "proved")) < MaxProofs
            THEN {None} \cup {Some(ProveTx(n, l, "a2", 3)) :
                                 l \in IdLists(ids + Len(p))}
            ELSE {None}
    IN UNION {{[proposed |-> p, proved |-> q] : q \in Proofs(p)} :
                 p \in proposals}

\* The chains of ChainLen blocks with one batch, proposed in block 2 and
\* proved in block 4, over every sender, proposer, coinbase and fee.  Block 3
\* is empty or holds a BatchProposed log that carries the same batch id
\* again, from another sender (what a reader of the head sees when the
\* proposal is replaced in a reorganisation).
ChainLen == 6
FixedChains ==
    {[n \in 1..ChainLen |->
         IF n = 2
         THEN [proposed |-> Some(ProposeTx(2, 1, f, p, c, 1, e)),
               proved |-> None]
         ELSE IF n = 3 /\ again
         THEN [proposed |->
                   Some(ProposeTx(3, 1, CHOOSE a \in Addr : a # f, p, c, 2, e)),
               proved |-> None]
         ELSE IF n = 4
         THEN [proposed |-> None, proved |-> Some(ProveTx(4, <<1>>, pf, pg))]
         ELSE EmptyBlock] :
       f \in Addr, p \in Addr, c \in Addr, e \in L2Fees, again \in BOOLEAN,
       pf \in Addr, pg \in GasUsed}

\* The chains of ChainLen blocks with one batch, proposed in block 2 and
\* proved in block 4, whose values sit at the edges of the stored widths:
\* an id, a timestamp or a last block id one above i64::MAX, more blocks in
\* the batch than the L2 chain has, a balance that grows by u128::MAX or by
\* one more, and a balance that falls.
WideCases ==
    LET Plain == [id |-> 1, at |-> 2, last |-> 1, blocks |-> 1, fee |-> 2,
                  genesis |-> 0, proof |-> <<1>>]
    IN {Plain,
        [Plain EXCEPT !.id = I64Max + 1],
        [Plain EXCEPT !.at = I64Max + 1],
        [Plain EXCEPT !.last = I64Max + 1],
        [Plain EXCEPT !.blocks = 2],
        [Plain EXCEPT !.fee = U128Max],
        [Plain EXCEPT !.fee = U128Max + 1],
        [Plain EXCEPT !.genesis = 5, !.fee = 0 - 3],
        [Plain EXCEPT !.genesis = U256Modulus - 1,
                      !.fee = 0 - (U256Modulus - 1)],
        [Plain EXCEPT !.proof = <<I64Max + 1>>]}

WideChains ==
    {[n \in 1..ChainLen |->
         IF n = 2
         THEN [proposed |->
                   Some([ProposeTx(2, w.id, "a2", "a1", "a1", 1, w.fee)
                            EXCEPT !.proposedAt = w.at,
                                   !.lastBlockId = w.last,
                                   !.blocks = w.blocks,
                                   !.l2_genesis = w.genesis]),
               proved |-> None]
         ELSE IF n = 4
         THEN [proposed |-> None,
               proved |-> Some(ProveTx(4, w.proof, "a2", 3))]
         ELSE EmptyBlock] :
       w \in WideCases}

\* l2_provider.get_balance(a).block_id(h): L2 block h is the block of batch
\* h, and it credits the batch's L2 fees to the batch's coinbase
L2Balance(chain, a, h) ==
    LET First(id) ==
            CHOOSE n \in TxBlocks(chain, "proposed") :
                /\ Unwrap(chain[n].proposed).batchId = id
                /\ \A m \in TxBlocks(chain, "proposed") :
                      Unwrap(chain[m].proposed).batchId = id => n <= m
        S == {id \in 1..h :
                 /\ \E n \in TxBlocks(chain, "proposed") :
                       Unwrap(chain[n].proposed).batchId = id
                 /\ Unwrap(chain[First(id)].proposed).coinbase = a}
        RECURSIVE Sum(_)
        Sum(T) == IF T = {} THEN 0
                  ELSE LET id == CHOOSE m \in T : TRUE
                       IN Unwrap(chain[First(id)].proposed).l2_fee
                          + Sum(T \ {id})
        Genesis ==
            LET G == {n \in TxBlocks(chain, "proposed") :
                         Unwrap(chain[n].proposed).coinbase = a}
            IN IF G = {} THEN 0
               ELSE Unwrap(chain[CHOOSE n \in G : \A m \in G : n <= m].proposed)
                        .l2_genesis
    IN Genesis + Sum(S)

\* the height of the L2 chain: the last block of the last batch
L2Head(chain) ==
    LET B == {Unwrap(chain[n].proposed).lastBlockId :
                 n \in TxBlocks(chain, "proposed")}
    IN IF B = {} THEN 0 ELSE CHOOSE b \in B : \A c \in B : c <= b

\* get_balance(a).block_id(h): None (an Err) above the head of the L2 chain
L2BalanceAt(chain, a, h) ==
    IF h <= L2Head(chain) THEN Some(L2Balance(chain, a, h)) ELSE None

\* l1_provider.get_logs(filter): the logs of one event in [from, to], in order
RECURSIVE GetLogs(_, _, _, _)
GetLogs(chain, kind, from, to) ==
    IF from > to \/ from > Len(chain) THEN <<>>
    ELSE chain[from][kind] \o GetLogs(chain, kind, from + 1, to)

(***************************************************************************)
(* db.rs: the store.                                                       *)
(***************************************************************************)
\* DataBase::new, "Insert status if not exist"
InitialStatus ==
    [indexed_l1_block |-> 0, proposed_batch_id |-> 0, proposed_block_id |-> 0,
     proved_batch_id |-> 0, proved_block_id |-> 0]

\* the status row seeded at every start
DataBaseNewReseed(st) == Some(InitialStatus)

DataBaseNew(st) == IF st = None THEN Some(InitialStatus) ELSE st

\* DataBase::get_indexed_l1_block: 0 when the row cannot be read
get_indexed_l1_block(st) ==
    IF IsSome(st) THEN Unwrap(st).indexed_l1_block ELSE 0

\* update_status with every argument written, a 0 too
update_status_all(st, indexed, proposed_batch_id, proposed_block_id, proved_batch_id, proved_block_id) ==
    IF st = None THEN st
    ELSE Some([indexed_l1_block |-> indexed,
               proposed_batch_id |-> proposed_batch_id,
               proposed_block_id |-> proposed_block_id,
               proved_batch_id |-> proved_batch_id,
               proved_block_id |-> proved_block_id])

\* DataBase::update_status, when the UPDATE succeeds: a 0 argument is skipped
update_status(st, indexed, proposed_batch_id, proposed_block_id, proved_batch_id, proved_block_id) ==
    LET Set(old, new) == IF new # 0 THEN new ELSE old
    IN IF st = None THEN st
       ELSE Some([indexed_l1_block |->
                      Set(Unwrap(st).indexed_l1_block, indexed),
                  proposed_batch_id |->
                      Set(Unwrap(st).proposed_batch_id, proposed_batch_id),
                  proposed_block_id |->
                      Set(Unwrap(st).proposed_block_id, proposed_block_id),
                  proved_batch_id |->
                      Set(Unwrap(st).proved_batch_id, proved_batch_id),
                  proved_block_id |->
                      Set(Unwrap(st).proved_block_id, proved_block_id)])

\* the row insert_batch binds: the proposal columns, the proof columns NULL
NewRow(log, tx_hash, sender, propose_fee) ==
    [batch_id |-> log.batchId,
     sender |-> AddressToString(sender),
     proposer |-> AddressToString(log.proposer),
     coinbase |-> AddressToString(log.coinbase),
     propose_tx |-> tx_hash,
     proposed_at |-> log.proposedAt,
     last_block_id |-> log.lastBlockId,
     block_count |-> log.blocks,
     propose_fee |-> U128ToString(propose_fee),
     l2_fee_earned |-> None,
     prover |-> None,
     prove_tx |-> None,
     prove_fee |-> None,
     is_sent_by_proposer |-> (sender = log.coinbase),
     is_profitable |-> None,
     is_proved_by_proposer |-> None]

\* insert_batch as INSERT OR REPLACE
insert_or_replace(table, log, tx_hash, sender, propose_fee) ==
    [id \in DOMAIN table \cup {log.batchId} |->
        IF id = log.batchId
        THEN NewRow(log, tx_hash, sender, propose_fee)
        ELSE table[id]]

\* insert_batch as an upsert of the proposal columns
insert_or_update(table, log, tx_hash, sender, propose_fee) ==
    [id \in DOMAIN table \cup {log.batchId} |->
        IF id # log.batchId
        THEN table[id]
        ELSE IF id \notin DOMAIN table
        THEN NewRow(log, tx_hash, sender, propose_fee)
        ELSE [table[id] EXCEPT
                 !.sender = AddressToString(sender),
                 !.propose_tx = tx_hash,
                 !.propose_fee = U128ToString(propose_fee),
                 !.is_sent_by_proposer = (sender = log.coinbase)]]

\* DataBase::insert_batch: INSERT; a unique violation is logged and skipped
insert_batch(table, log, tx_hash, sender, propose_fee) ==
    IF log.batchId \in DOMAIN table
    THEN table
    ELSE [id \in DOMAIN table \cup {log.batchId} |->
             IF id = log.batchId
             THEN NewRow(log, tx_hash, sender, propose_fee)
             ELSE table[id]]

\* a lookup that answers a row for every id
get_batch_or_blank(table, batch_id) ==
    IF batch_id \in DOMAIN table
    THEN Some(table[batch_id])
    ELSE Some([batch_id |-> batch_id, sender |-> AddressToString("a1"),
               proposer |-> AddressToString("a1"),
               coinbase |-> AddressToString("a1"), propose_tx |-> <<>>,
               proposed_at |-> 0, last_block_id |-> 0, block_count |-> 0,
               propose_fee |-> U128ToString(0), l2_fee_earned |-> None,
               prover |-> None, prove_tx |-> None, prove_fee |-> None,
               is_sent_by_proposer |-> FALSE, is_profitable |-> None,
               is_proved_by_proposer |-> None])

\* DataBase::get_batch_by_id when the SELECT succeeds
get_batch_by_id(table, batch_id) ==
    IF batch_id \in DOMAIN table THEN Some(table[batch_id]) ELSE None

\* update_batch with the is_profitable column left out of the UPDATE
update_batch_partial(table, row) ==
    [id \in DOMAIN table |->
        IF id = row.batch_id
        THEN [table[id] EXCEPT !.l2_fee_earned = row.l2_fee_earned,
                               !.prover = row.prover,
                               !.prove_tx = row.prove_tx,
                               !.prove_fee = row.prove_fee,
                               !.is_proved_by_proposer = row.is_proved_by_proposer]
        ELSE table[id]]

\* DataBase::update_batch: UPDATE the six proof columns WHERE batch_id = ?
update_batch(table, row) ==
    [id \in DOMAIN table |->
        IF id = row.batch_id
        THEN [table[id] EXCEPT !.l2_fee_earned = row.l2_fee_earned,
                               !.prover = row.prover,
                               !.prove_tx = row.prove_tx,
                               !.prove_fee = row.prove_fee,
                               !.is_profitable = row.is_profitable,
                               !.is_proved_by_proposer = row.is_proved_by_proposer]
        ELSE table[id]]

(***************************************************************************)
(* batch_indexer.rs: the calculators.                                      *)
(***************************************************************************)
\* BatchIndexer::get_tx_eth_price
get_tx_eth_price(receipt) ==
    LET gas_used == receipt.gas_used
        gas_price == receipt.effective_gas_price
        blob_gas_used == IF IsSome(receipt.blob_gas_used)
                         THEN Unwrap(receipt.blob_gas_used) ELSE 0
        blob_gas_price == IF IsSome(receipt.blob_gas_price)
                          THEN Unwrap(receipt.blob_gas_price) ELSE 0
        execution_fee == gas_used * gas_price
        blob_fee == blob_gas_used * blob_gas_price
    IN execution_fee + blob_fee

\* the fee of the transaction charged whole to every batch
ProveFeeUnsplit(receipt, ids) == get_tx_eth_price(receipt)

\* index_batch_proved: the fee of the transaction over the number of ids
ProveFee(receipt, ids) == get_tx_eth_price(receipt) \div Len(ids)

\* the comparison with the window's edge counted as late
IsLateInclusive(timestamp, proposed_at, proving_window) ==
    timestamp >= proposed_at + proving_window

\* get_prover: the comparison that selects the proof's sender
IsLate(timestamp, proposed_at, proving_window) ==
    timestamp > proposed_at + proving_window

\* BatchIndexer::get_prover
get_prover(prove_sender, propose_sender, prove_block, proposed_at, proving_window) ==
    IF IsLate(Timestamp(prove_block), proposed_at, proving_window)
    THEN prove_sender
    ELSE propose_sender

\* BatchIndexer::calculate_l2_fee_earned
\* the set of its results over the builds: Some(fee), or None for an Err or
\* a panic
calculate_l2_fee_earned(chain, coinbase_address, last_block_number, block_count) ==
    LET coinbase == AddressFromStr(coinbase_address)
        Fee(start_block) ==
            LET balance_before == L2BalanceAt(chain, coinbase, start_block)
                balance_after == L2BalanceAt(chain, coinbase, last_block_number)
            IN IF balance_before = None \/ balance_after = None
               THEN None
               ELSE TryIntoU128(U256Sub(Unwrap(balance_after),
                                        Unwrap(balance_before)))
    IN {IF s = None THEN None ELSE Fee(Unwrap(s)) :
           s \in U64Sub(last_block_number, block_count)}

\* the comparison with break-even counted as profitable
IsProfitableOrEqual(l2_fee_earned, prove_fee, propose_fee) ==
    l2_fee_earned >= prove_fee + propose_fee

\* index_batch_proved: the comparison stored as is_profitable
IsProfitable(l2_fee_earned, prove_fee, propose_fee) ==
    l2_fee_earned > prove_fee + propose_fee

\* index_batch_proved, the body of `if let Some(mut batch)`: the row handed
\* to update_batch
ProvedRow(row, log, l2_fee_earned, proving_window) ==
    LET tx_hash == TxHashToString(log.transaction_hash)
        prove_fee == ProveFee(log, log.batchIds)
        prover == get_prover(AddressToString(log.from), row.sender,
                             log.block_number, row.proposed_at, proving_window)
    IN [row EXCEPT !.prove_tx = Some(tx_hash),
                   !.prove_fee = Some(U128ToString(prove_fee)),
                   !.is_proved_by_proposer = Some(prover = row.proposer),
                   !.prover = Some(prover),
                   !.l2_fee_earned = Some(U128ToString(l2_fee_earned)),
                   !.is_profitable =
                       Some(IsProfitable(l2_fee_earned, prove_fee,
                                         ParseU128(row.propose_fee)))]

\* a window that starts on the last indexed block
FromBlockOverlap(indexed) == indexed

\* run_indexing_loop, line 64: the first block of the window
FromBlock(indexed) == indexed + 1

\* a window of exactly indexing_step blocks
ToBlockShort(from, indexing_step) == from + indexing_step - 1
ToBlock(from, indexing_step) == from + indexing_step

\* the loop over the logs left one log before the end
LogsExhaustedEarly(remaining) == Len(remaining) <= 1
LogsExhausted(remaining) == remaining = <<>>

\* the guard with a head at the window's end let through
HeadIsPastOrAt(current_block, to) == current_block >= to

\* run_indexing_loop: the guard of a window
HeadIsPast(current_block, to) == current_block > to

(***************************************************************************)
(* The state machine.                                                      *)
(***************************************************************************)
NoPass == [from |-> 0, to |-> 0, table |-> <<>>]

\* no get_logs call was made yet: no block was asked for
NoScans == [proposed |-> [b \in {} |-> 0], proved |-> [b \in {} |-> 0]]

\* a get_logs call over from..to: how often each block was asked for, where
\* 2 stands for more than once
Scan(counts, from, to) ==
    [b \in DOMAIN counts \cup (from..to) |->
        IF b \notin from..to THEN counts[b]
        ELSE IF b \in DOMAIN counts THEN 2 ELSE 1]

Configs ==
    {[l1_start_block |-> 1, indexing_step |-> s, sleep_duration_sec |-> 12,
      proving_window |-> w] : s \in IndexingSteps, w \in ProvingWindows}

\* the loop's locals when the process is not running
DropLocals ==
    /\ indexed_l1_block' = 0
    /\ from_block' = 0
    /\ to_block' = 0
    /\ logs' = <<>>
    /\ batch_ids' = <<>>
    /\ proposed' = <<0, 0>>
    /\ proved' = <<0, 0>>
    /\ handled' = {}
    /\ sleep_secs' = 0
    /\ loaded' = 0
    /\ scanned' = NoScans

Down ==
    /\ pc' = "down"
    /\ DropLocals

\* an error that is logged and survived, where the loop panics
OnFatalContinue(at) == IF at \in {"proposed", "proved"} THEN "status" ELSE "down"

\* run_indexing_loop: `panic!` on a failed head read and in the
\* unwrap_or_else of the two processors: where the process is afterwards
OnFatal(at) == "down"

\* the process ends in a panic; the store keeps what was written
FatalStep ==
    /\ pc' = OnFatal(pc)
    /\ DropLocals
    /\ exit' = "panic"
    /\ UNCHANGED <<l1_chain, batch, status, config, completed, request,
                   response, last_pass>>

\* the progress kept in memory only when the checkpoint was written
AdvancedIfPersisted(indexed, to, persisted) == IF persisted THEN to ELSE indexed

\* the assignment of line 85 left out
AdvancedNever(indexed, to, persisted) == indexed

\* the progress set one block past the window
AdvancedPastWindow(indexed, to, persisted) == to + 1

\* run_indexing_loop, line 85: the progress in memory after a window,
\* assigned before update_status is called
AdvancedProgress(indexed, to, persisted) == to

\* the comparison with the boundary counted as caught up
CaughtUpInclusive(indexed, indexing_step, current_block) ==
    indexed + indexing_step >= current_block

\* run_indexing_loop, line 106: the test that selects the long sleep
CaughtUp(indexed, indexing_step, current_block) ==
    indexed + indexing_step > current_block

Init ==
    /\ l1_chain \in {<<b>> : b \in Blocks(<<>>, 1)}
    /\ batch = <<>>
    /\ status = None
    /\ pc = "down"
    /\ config \in {c \in Configs : c.indexing_step = 1 /\ c.proving_window = 1}
    /\ indexed_l1_block = 0
    /\ from_block = 0
    /\ to_block = 0
    /\ logs = <<>>
    /\ batch_ids = <<>>
    /\ proposed = <<0, 0>>
    /\ proved = <<0, 0>>
    /\ handled = {}
    /\ sleep_secs = 0
    /\ exit = "none"
    /\ last_pass = NoPass
    /\ loaded = 0
    /\ scanned = NoScans
    /\ completed = {}
    /\ request = None
    /\ response = None

\* the L1 chain grows by one block.  The process observes the head only in
\* the two get_block_number calls of the loop and reads logs only below a
\* head it has observed, so growth is taken at those two points.
MineBlock ==
    /\ pc \in {"loop", "pace"}
    /\ Len(l1_chain) < MaxHead
    /\ \E b \in Blocks(l1_chain, Len(l1_chain) + 1) :
          l1_chain' = Append(l1_chain, b)
    /\ UNCHANGED <<batch, status, pc, config, loaded, scanned, completed,
                   request, response, indexed_l1_block, from_block, to_block,
                   logs, batch_ids, proposed, proved, handled, sleep_secs,
                   exit, last_pass>>

\* main and BatchIndexer::new: open the store, load the progress
Start ==
    /\ pc = "down"
    /\ status' = DataBaseNew(status)
    /\ indexed_l1_block' =
           Max(get_indexed_l1_block(status'), config.l1_start_block)
    /\ pc' = "loop"
    /\ loaded' = indexed_l1_block'
    /\ scanned' = NoScans
    /\ UNCHANGED <<l1_chain, batch, config, completed, request, response,
                   from_block, to_block, logs, batch_ids, proposed, proved,
                   handled, sleep_secs, exit, last_pass>>

\* run_indexing_loop, lines 60-67, and the get_logs of index_batch_proposed
LoopHead ==
    /\ pc = "loop"
    /\ LET current_block == Len(l1_chain)
           from == FromBlock(indexed_l1_block)
           to == ToBlock(from, config.indexing_step)
       IN /\ from_block' = from
          /\ to_block' = to
          /\ IF HeadIsPast(current_block, to)
             THEN /\ pc' = "proposed"
                  /\ logs' = GetLogs(l1_chain, "proposed", from, to)
                  /\ last_pass' = IF last_pass.from = from /\ last_pass.to = to
                                  THEN last_pass ELSE NoPass
                  /\ scanned' =
                         [scanned EXCEPT !.proposed = Scan(@, from, to)]
             ELSE /\ pc' = "pace"
                  /\ UNCHANGED <<logs, last_pass, scanned>>
    /\ proposed' = <<0, 0>>
    /\ exit' = "none"
    /\ UNCHANGED <<l1_chain, batch, status, config, loaded, completed,
                   request, response, indexed_l1_block, batch_ids, proved,
                   handled, sleep_secs>>

\* insert_batch, lines 187-194: the conversions to i64 of the chain's u64
InsertFits(log) ==
    /\ FitsI64(log.batchId)
    /\ FitsI64(log.proposedAt)
    /\ FitsI64(log.lastBlockId)

\* index_batch_proposed: one turn of `for log in logs`
IndexBatchProposed ==
    /\ pc = "proposed"
    /\ logs # <<>>
    /\ LET log == Head(logs)
           propose_fee == get_tx_eth_price(log)
       IN IF InsertFits(log)
          THEN /\ proposed' = <<Max(proposed[1], log.batchId),
                                Max(proposed[2], log.lastBlockId)>>
               /\ batch' = insert_batch(batch, log,
                                        TxHashToString(log.transaction_hash),
                                        log.from, propose_fee)
               /\ logs' = Tail(logs)
               /\ UNCHANGED <<l1_chain, status, pc, config, loaded, scanned,
                              completed, request, response, indexed_l1_block,
                              from_block, to_block, batch_ids, proved,
                              handled, sleep_secs, exit, last_pass>>
          ELSE FatalStep

\* index_batch_proposed returns; index_batch_proved fetches its logs
ProposedDone ==
    /\ pc = "proposed"
    /\ LogsExhausted(logs)
    /\ pc' = "proved"
    /\ logs' = GetLogs(l1_chain, "proved", from_block, to_block)
    /\ batch_ids' = IF logs' # <<>> THEN Head(logs').batchIds ELSE <<>>
    /\ proved' = <<0, 0>>
    /\ handled' = {}
    /\ scanned' =
           [scanned EXCEPT !.proved = Scan(@, from_block, to_block)]
    /\ UNCHANGED <<l1_chain, batch, status, config, loaded, completed,
                   request, response, indexed_l1_block, from_block, to_block,
                   proposed, sleep_secs, exit, last_pass>>

\* index_batch_proved: one turn of `for batch_id in batchIds`.  The lookup
\* answers None for an absent id and also when the SELECT fails.
IndexBatchProved ==
    /\ pc = "proved"
    /\ logs # <<>>
    /\ LET log == Head(logs)
           batch_id == Head(batch_ids)
           Advance ==
               /\ IF Len(batch_ids) > 1
                  THEN /\ batch_ids' = Tail(batch_ids)
                       /\ logs' = logs
                  ELSE /\ logs' = Tail(logs)
                       /\ batch_ids' = IF logs' # <<>>
                                       THEN Head(logs').batchIds ELSE <<>>
               /\ UNCHANGED <<l1_chain, status, pc, config, loaded, scanned,
                              completed, request, response, indexed_l1_block,
                              from_block, to_block, proposed, sleep_secs,
                              exit, last_pass>>
       IN IF ~FitsI64(batch_id)
          THEN FatalStep
          ELSE \E found \in {get_batch_by_id(batch, batch_id), None} :
                 IF IsSome(found)
                 THEN \E l2_fee_earned \in
                          calculate_l2_fee_earned(l1_chain,
                                                  Unwrap(found).coinbase,
                                                  Unwrap(found).last_block_id,
                                                  Unwrap(found).block_count) :
                        IF IsSome(l2_fee_earned)
                        THEN LET row == ProvedRow(Unwrap(found), log,
                                                  Unwrap(l2_fee_earned),
                                                  config.proving_window)
                             IN /\ proved' =
                                      <<Max(proved[1], batch_id),
                                        Max(proved[2], row.last_block_id)>>
                                /\ handled' = handled \cup {batch_id}
                                /\ batch' = update_batch(batch, row)
                                /\ Advance
                        ELSE FatalStep
                 ELSE /\ UNCHANGED <<batch, proved, handled>>
                      /\ Advance

\* index_batch_proved returns
ProvedDone ==
    /\ pc = "proved"
    /\ logs = <<>>
    /\ pc' = "status"
    /\ last_pass' = [from |-> from_block, to |-> to_block, table |-> batch]
    /\ completed' = completed \cup (from_block..to_block)
    /\ UNCHANGED <<l1_chain, batch, status, config, loaded, scanned, request,
                   response, indexed_l1_block, from_block, to_block, logs,
                   batch_ids, proposed, proved, handled, sleep_secs, exit>>

\* run_indexing_loop, lines 85-99: advance the progress, write the
\* checkpoint; a failed write is logged and the loop goes on
UpdateStatus ==
    /\ pc = "status"
    /\ \E persisted \in BOOLEAN :
          /\ indexed_l1_block' =
                 AdvancedProgress(indexed_l1_block, to_block, persisted)
          /\ status' = IF persisted
                       THEN update_status(status, indexed_l1_block',
                                          proposed[1], proposed[2],
                                          proved[1], proved[2])
                       ELSE status
    /\ pc' = "pace"
    /\ UNCHANGED <<l1_chain, batch, config, loaded, scanned, completed,
                   request, response, from_block, to_block, logs, batch_ids,
                   proposed, proved, handled, sleep_secs, exit, last_pass>>

\* run_indexing_loop, lines 102-113: read the head again and sleep
Pace ==
    /\ pc = "pace"
    /\ LET current_block == Len(l1_chain)
       IN sleep_secs' =
              IF CaughtUp(indexed_l1_block, config.indexing_step, current_block)
              THEN config.indexing_step * config.sleep_duration_sec
              ELSE config.sleep_duration_sec
    /\ pc' = "sleep"
    /\ from_block' = 0
    /\ to_block' = 0
    /\ proposed' = <<0, 0>>
    /\ proved' = <<0, 0>>
    /\ handled' = {}
    /\ UNCHANGED <<l1_chain, batch, status, config, loaded, scanned,
                   completed, request, response, indexed_l1_block, logs,
                   batch_ids, exit, last_pass>>

\* the sleep ends and the loop starts over
Wake ==
    /\ pc = "sleep"
    /\ pc' = "loop"
    /\ sleep_secs' = 0
    /\ UNCHANGED <<l1_chain, batch, status, config, loaded, scanned,
                   completed, request, response, indexed_l1_block, from_block,
                   to_block, logs, batch_ids, proposed, proved, handled, exit,
                   last_pass>>

\* a call of a provider fails, a receipt or a block is missing, a log does
\* not decode: the head reads of lines 60 and 102 panic, the processors
\* return the Err and the loop panics on it
Panic ==
    /\ pc \in {"loop", "proposed", "proved", "pace"}
    /\ FatalStep

\* the process is ended from outside.  The store keeps what was written.
Crash ==
    /\ pc # "down"
    /\ Down
    /\ exit' = "killed"
    /\ UNCHANGED <<l1_chain, batch, status, config, completed, request,
                   response, last_pass>>

Next ==
    \/ MineBlock
    \/ Start
    \/ LoopHead
    \/ IndexBatchProposed
    \/ ProposedDone
    \/ IndexBatchProved
    \/ ProvedDone
    \/ UpdateStatus
    \/ Pace
    \/ Wake
    \/ Panic
    \/ Crash

Spec == Init /\ [][Next]_vars

(***************************************************************************)
(* The same process over a chain that is mined before it starts: one batch *)
(* and one proof, over all the senders, proposers, coinbases and fees.     *)
(***************************************************************************)
FixedInit ==
    /\ l1_chain \in FixedChains
    /\ batch = <<>>
    /\ status = None
    /\ pc = "down"
    /\ config \in Configs
    /\ indexed_l1_block = 0
    /\ from_block = 0
    /\ to_block = 0
    /\ logs = <<>>
    /\ batch_ids = <<>>
    /\ proposed = <<0, 0>>
    /\ proved = <<0, 0>>
    /\ handled = {}
    /\ sleep_secs = 0
    /\ exit = "none"
    /\ last_pass = NoPass
    /\ loaded = 0
    /\ scanned = NoScans
    /\ completed = {}
    /\ request = None
    /\ response = None

FixedNext ==
    \/ Start
    \/ LoopHead
    \/ IndexBatchProposed
    \/ ProposedDone
    \/ IndexBatchProved
    \/ ProvedDone
    \/ UpdateStatus
    \/ Pace
    \/ Wake
    \/ Panic
    \/ Crash

FixedSpec == FixedInit /\ [][FixedNext]_vars

(***************************************************************************)
(* The same process over the chains of WideChains.                         *)
(***************************************************************************)
WideInit ==
    /\ l1_chain \in WideChains
    /\ batch = <<>>
    /\ status = None
    /\ pc = "down"
    /\ config \in {c \in Configs : c.indexing_step = 1}
    /\ indexed_l1_block = 0
    /\ from_block = 0
    /\ to_block = 0
    /\ logs = <<>>
    /\ batch_ids = <<>>
    /\ proposed = <<0, 0>>
    /\ proved = <<0, 0>>
    /\ handled = {}
    /\ sleep_secs = 0
    /\ exit = "none"
    /\ last_pass = NoPass
    /\ loaded = 0
    /\ scanned = NoScans
    /\ completed = {}
    /\ request = None
    /\ response = None

WideNext ==
    \/ Start
    \/ LoopHead
    \/ IndexBatchProposed
    \/ ProposedDone
    \/ IndexBatchProved
    \/ ProvedDone
    \/ UpdateStatus
    \/ Pace
    \/ Wake
    \/ Panic
    \/ Crash

WideSpec == WideInit /\ [][WideNext]_vars

(***************************************************************************)
(* The process when nothing stops it: no provider call fails and nobody    *)
(* ends it.  The loop is a tokio task that is always scheduled again, and  *)
(* the chain keeps producing blocks.                                       *)
(***************************************************************************)
\* a step of the process
LoopStep ==
    \/ Start
    \/ LoopHead
    \/ IndexBatchProposed
    \/ ProposedDone
    \/ IndexBatchProved
    \/ ProvedDone
    \/ UpdateStatus
    \/ Pace
    \/ Wake

LiveNext ==
    \/ MineBlock
    \/ Start
    \/ LoopHead
    \/ IndexBatchProposed
    \/ ProposedDone
    \/ IndexBatchProved
    \/ ProvedDone
    \/ UpdateStatus
    \/ Pace
    \/ Wake

LiveSpec ==
    /\ Init
    /\ [][LiveNext]_vars
    /\ WF_vars(LoopStep)
    /\ SF_vars(MineBlock)

(***************************************************************************)
(* graphql: the query service.  It reads the tables the indexer writes.    *)
(***************************************************************************)
\* the characters of the decimal digits
DigitChar == <<"0", "1", "2", "3", "4", "5", "6", "7", "8", "9">>

\* U256::to_string: the decimal digits as characters
U256ToString(n) ==
    LET digits == U128ToString(n)
    IN [i \in 1..Len(digits) |-> DigitChar[digits[i] + 1]]

\* U256::from_str_radix(s, 10) of a stored decimal string: None is the Err
U256FromStrRadix(s) ==
    IF ParseU128(s) < U256Modulus THEN Some(ParseU128(s)) ELSE None

\* U256 += U256: the Add of ruint's Uint wraps
U256Add(a, b) == (a + b) % U256Modulus

\* wei_to_eth_string: the 18 decimal places of ETH, of the 78 digits a U256
\* holds; scaled with the width of U256
EthDecimals == U256Bits \div 3

\* "0".repeat(n)
Zeros(n) == [i \in 1..n |-> "0"]

\* the test with a string of exactly 18 digits taken as one with an integer
\* part
IsFractionOnlyStrict(len) == len < EthDecimals

\* wei_to_eth_string, line 113: the amount is below one ETH
IsFractionOnly(len) == len <= EthDecimals

\* wei_to_eth_string
wei_to_eth_string(wei) ==
    LET wei_str == U256ToString(wei)
        len == Len(wei_str)
    IN IF IsFractionOnly(len)
       THEN <<"0", ".">> \o Zeros(EthDecimals - len) \o wei_str \o <<" ETH">>
       ELSE LET int_part == SubSeq(wei_str, 1, len - EthDecimals)
                frac_part == SubSeq(wei_str, len - EthDecimals + 1, len)
            IN int_part \o <<".">> \o frac_part \o <<" ETH">>

\* AccountingList::new and AddressInfo::new
NewAccountingList == [total_fee |-> 0, addresses |-> <<>>]
NewAddressInfo == [total_fee |-> 0, batches |-> <<>>]

\* both ledgers keyed by the proposer
AccountingKeyProposer(operation, row) == row.proposer

\* AccountingList::add_batch, lines 90-93: the key of the group
AccountingKey(operation, row) ==
    IF operation = "Debit" THEN row.coinbase ELSE row.proposer

\* AccountingList::add_batch and AddressInfo::add_batch; None is the Err of
\* a propose_fee that does not parse
add_batch(list, operation, row) ==
    LET fee == U256FromStrRadix(row.propose_fee)
        key == AccountingKey(operation, row)
        info == IF key \in DOMAIN list.addresses
                THEN list.addresses[key] ELSE NewAddressInfo
    IN IF fee = None THEN None
       ELSE Some([total_fee |-> U256Add(list.total_fee, Unwrap(fee)),
                  addresses |->
                      [k \in DOMAIN list.addresses \cup {key} |->
                          IF k = key
                          THEN [total_fee |->
                                    U256Add(info.total_fee, Unwrap(fee)),
                                batches |-> Append(info.batches, row)]
                          ELSE list.addresses[k]]])

\* get_accounting_list: the WHERE clause of the SELECT
Selected(table, operation, address, from, to) ==
    {id \in DOMAIN table :
        /\ IF operation = "Debit"
           THEN table[id].proposer = address /\ table[id].coinbase # address
           ELSE table[id].proposer # address /\ table[id].coinbase = address
        /\ id >= from
        /\ id <= to}

\* get_accounting_list: try_for_each over the rows of the SELECT, in the
\* order of the primary key
RECURSIVE AddBatches(_, _, _, _)
AddBatches(list, operation, table, ids) ==
    IF ids = {} THEN Some(list)
    ELSE LET id == CHOOSE i \in ids : \A j \in ids : i <= j
             next == add_batch(list, operation, table[id])
         IN IF next = None THEN None
            ELSE AddBatches(Unwrap(next), operation, table, ids \ {id})

get_accounting_list(table, operation, address, from, to) ==
    AddBatches(NewAccountingList, operation, table,
               Selected(table, operation, address, from, to))

\* AccountingListGql::from and AddressInfoGql::new: the totals rendered; the
\* Vec of the groups comes out of a HashMap, in no order
AccountingListGql(list) ==
    [total_fee |-> wei_to_eth_string(list.total_fee),
     addresses |->
         {[address |-> k,
           total_fee |-> wei_to_eth_string(list.addresses[k].total_fee),
           batches |-> list.addresses[k].batches] :
            k \in DOMAIN list.addresses}]

\* async_graphql::Error::new(message)
Err(message) == [ok |-> FALSE, error |-> message]

\* the bounds accepted when they are equal
InvertedRangeStrict(from, to) == from > to

\* QueryRoot::accounting, line 59
InvertedRange(from, to) == from >= to

\* QueryRoot::accounting, lines 67-75: SELECT COUNT(batch_id) over the range
BatchCount(table, from, to) ==
    Cardinality({id \in DOMAIN table : id >= from /\ id <= to})

\* QueryRoot::accounting: the answer to a request
accounting(table, address, from, to, check_integrity) ==
    LET batch_count == BatchCount(table, from, to)
        debit == get_accounting_list(table, "Debit", address, from, to)
        credit == get_accounting_list(table, "Credit", address, from, to)
    IN IF InvertedRange(from, to)
       THEN Err("from must be less than to")
       ELSE IF check_integrity = Some(TRUE) /\ batch_count = 0
       THEN Err("Integrity error: No batches found in range")
       ELSE IF check_integrity = Some(TRUE) /\ batch_count # to - from + 1
       THEN Err("Integrity error: Not all batches found in range")
       ELSE IF debit = None \/ credit = None
       THEN Err("Cannot parse propose fee")
       ELSE [ok |-> TRUE,
             debit |-> AccountingListGql(Unwrap(debit)),
             credit |-> AccountingListGql(Unwrap(credit))]

\* batch ids of the tables the service is asked about
MaxRows == 3

\* addresses of the teams: a1 and a3 send requests
Teams == {"a1", "a2", "a3"}

\* the proposer and the coinbase of a stored batch
TeamPairs ==
    {<<"a1", "a1">>, <<"a1", "a2">>, <<"a1", "a3">>, <<"a2", "a1">>,
     <<"a3", "a1">>, <<"a2", "a3">>}

\* the gas of the proposeBatch of batch `id`: the fees of the table go up to
\* u128::MAX, and their sum stays below 2^256, as the sum of the fees of
\* 2^63 rows does
ProposeGas(id) ==
    IF id = 2 THEN U128Max - 1
    ELSE IF id = 3 THEN U128Max - 4
    ELSE 1

\* the tables the indexer leaves after the proposals of some of the batches
\* 1..MaxRows: batch `id` is proposed in block id + 1
BatchTables ==
    LET Row(id, pair) ==
            LET log == ProposeTx(id + 1, id, pair[1], pair[1], pair[2],
                                 ProposeGas(id), 0)
            IN NewRow(log, TxHashToString(log.transaction_hash), log.from,
                      get_tx_eth_price(log))
    IN UNION {{[id \in ids |-> Row(id, pairs[id])] :
                 pairs \in [ids -> TeamPairs]} :
                ids \in SUBSET (1..MaxRows)}

\* the service answers from a store the indexer filled; the indexer is not
\* running
QueryInit ==
    /\ l1_chain = <<>>
    /\ batch \in BatchTables
    /\ status = Some(InitialStatus)
    /\ pc = "down"
    /\ config \in {c \in Configs : c.indexing_step = 1 /\ c.proving_window = 1}
    /\ indexed_l1_block = 0
    /\ from_block = 0
    /\ to_block = 0
    /\ logs = <<>>
    /\ batch_ids = <<>>
    /\ proposed = <<0, 0>>
    /\ proved = <<0, 0>>
    /\ handled = {}
    /\ sleep_secs = 0
    /\ exit = "none"
    /\ last_pass = NoPass
    /\ loaded = 0
    /\ scanned = NoScans
    /\ completed = {}
    /\ request = None
    /\ response = None

\* QueryRoot::accounting answers one request
Accounting ==
    /\ request = None
    /\ \E address \in {AddressToString("a1"), AddressToString("a3")},
          from \in 0..(MaxRows + 1), to \in 0..(MaxRows + 1),
          check_integrity \in {None, Some(FALSE), Some(TRUE)} :
          /\ request' = Some([address |-> address, from |-> from, to |-> to,
                              check_integrity |-> check_integrity])
          /\ response' =
                 Some(accounting(batch, address, from, to, check_integrity))
    /\ UNCHANGED <<l1_chain, batch, status, pc, config, indexed_l1_block,
                   from_block, to_block, logs, batch_ids, proposed, proved,
                   handled, sleep_secs, exit, last_pass, loaded, scanned,
                   completed>>

\* graphql_handler returns the answer; the service takes the next request
Reply ==
    /\ request # None
    /\ request' = None
    /\ response' = None
    /\ UNCHANGED <<l1_chain, batch, status, pc, config, indexed_l1_block,
                   from_block, to_block, logs, batch_ids, proposed, proved,
                   handled, sleep_secs, exit, last_pass, loaded, scanned,
                   completed>>

QueryNext ==
    \/ Accounting
    \/ Reply

QuerySpec == QueryInit /\ [][QueryNext]_vars

\* the totals a ledger can hold
WeiAmounts == 0..(U256Modulus - 1)

RenderInit ==
    /\ l1_chain = <<>>
    /\ batch = <<>>
    /\ status = Some(InitialStatus)
    /\ pc = "down"
    /\ config \in {c \in Configs : c.indexing_step = 1 /\ c.proving_window = 1}
    /\ indexed_l1_block = 0
    /\ from_block = 0
    /\ to_block = 0
    /\ logs = <<>>
    /\ batch_ids = <<>>
    /\ proposed = <<0, 0>>
    /\ proved = <<0, 0>>
    /\ handled = {}
    /\ sleep_secs = 0
    /\ exit = "none"
    /\ last_pass = NoPass
    /\ loaded = 0
    /\ scanned = NoScans
    /\ completed = {}
    /\ request = None
    /\ response = None

\* AccountingListGql::from renders a total
Render ==
    /\ request = None
    /\ \E wei \in WeiAmounts :
          /\ request' = Some(wei)
          /\ response' = Some(wei_to_eth_string(wei))
    /\ UNCHANGED <<l1_chain, batch, status, pc, config, indexed_l1_block,
                   from_block, to_block, logs, batch_ids, proposed, proved,
                   handled, sleep_secs, exit, last_pass, loaded, scanned,
                   completed>>

RenderNext ==
    \/ Render
    \/ Reply

RenderSpec == RenderInit /\ [][RenderNext]_vars

(***************************************************************************)
(* Properties.                                                             *)
(***************************************************************************)
ProofColumns ==
    {"l2_fee_earned", "prover", "prove_tx", "prove_fee", "is_profitable",
     "is_proved_by_proposer"}

ProposalColumns ==
    {"batch_id", "sender", "proposer", "coinbase", "propose_tx",
     "proposed_at", "last_block_id", "block_count", "propose_fee",
     "is_sent_by_proposer"}

StatusColumns ==
    {"indexed_l1_block", "proposed_batch_id", "proposed_block_id",
     "proved_batch_id", "proved_block_id"}

IsProved(row) == \A c \in ProofColumns : IsSome(row[c])

\* the blocks of the chain whose proposal carries batch id `id`
ProposedIn(id) ==
    {n \in TxBlocks(l1_chain, "proposed") :
        Unwrap(l1_chain[n].proposed).batchId = id}

\* the proveBatches transaction a row's prove_tx names
ProofOf(row) ==
    LET n == CHOOSE m \in TxBlocks(l1_chain, "proved") :
                 TxHashToString(Unwrap(l1_chain[m].proved).transaction_hash)
                     = Unwrap(row.prove_tx)
    IN Unwrap(l1_chain[n].proved)

\* a pass over a window has just ended: index_batch_proved returns
PassEnds == pc = "proved" /\ pc' = "status"

\* C1: a pass of the two processors over a window that the previous pass
\* already covered, with no write to the table in between, ends with the
\* batch table it started from, which is the table the previous pass left.
C1_ReprocessingIsIdempotent ==
    [][(PassEnds /\ last_pass.from = from_block /\ last_pass.to = to_block)
           => batch = last_pass.table]_vars

\* C2: whenever the Proof Processor runs over a window, every batch proposed
\* in that window or in any block before it (above the start block) has its
\* row in the repository.
C2_ProposalsBeforeProofs ==
    pc = "proved" =>
        \A n \in TxBlocks(l1_chain, "proposed") :
            (config.l1_start_block < n /\ n <= to_block)
                => Unwrap(l1_chain[n].proposed).batchId \in DOMAIN batch

\* C2 witness: the Proof Processor is about to handle a proof of a batch
\* that was proposed in the same window
C2_Witness ==
    /\ pc = "proved"
    /\ logs # <<>>
    /\ \E n \in from_block..to_block :
          /\ n \in TxBlocks(l1_chain, "proposed")
          /\ Unwrap(l1_chain[n].proposed).batchId = Head(batch_ids)
          /\ Head(batch_ids) \in DOMAIN batch

\* C3: no step lowers any of the five fields of the status row.
C3_CheckpointIsMonotone ==
    [][(IsSome(status) /\ IsSome(status'))
           => \A c \in StatusColumns : Unwrap(status')[c] >= Unwrap(status)[c]]_vars

\* C4 as claimed: the window of the processors is [last_indexed + 1,
\* last_indexed + step], and the progress after it is last_indexed + step.
C4_WindowIsStepBlocks ==
    [][/\ pc' \in {"proposed", "proved", "status"}
           => /\ from_block' = indexed_l1_block' + 1
              /\ to_block' = indexed_l1_block' + config.indexing_step
       /\ (pc = "status" /\ pc' = "pace")
           => indexed_l1_block' = indexed_l1_block + config.indexing_step]_vars

\* C4 amended: the window of the processors is [last_indexed + 1,
\* last_indexed + 1 + step], step + 1 blocks, and the progress after it is
\* last_indexed + 1 + step.
C4_WindowIsStepPlusOneBlocks ==
    [][/\ pc' \in {"proposed", "proved", "status"}
           => /\ from_block' = indexed_l1_block' + 1
              /\ to_block' = indexed_l1_block' + 1 + config.indexing_step
              /\ to_block' - from_block' + 1 = config.indexing_step + 1
       /\ (pc = "status" /\ pc' = "pace")
           => /\ indexed_l1_block' = indexed_l1_block + 1 + config.indexing_step
              /\ indexed_l1_block' = to_block]_vars

\* C4 witness: a window of step 2 has been processed and the progress moved
C4_Witness ==
    /\ pc = "pace"
    /\ config.indexing_step = 2
    /\ indexed_l1_block = config.l1_start_block + 3
    /\ 2 \in ProposedIn(1)
    /\ 1 \in DOMAIN batch

\* the timestamp of the block of a row's proof and the edge of its window
ProofTimestamp(row) == Timestamp(ProofOf(row).block_number)

WindowEdge(row) == row.proposed_at + config.proving_window

ProofSender(row) == AddressToString(ProofOf(row).from)

ProvedIds == {id \in DOMAIN batch : IsProved(batch[id])}

C6_InWindowProverIsProposer ==
    \A id \in ProvedIds :
        LET row == batch[id]
        IN /\ ProofTimestamp(row) <= WindowEdge(row)
                => /\ Unwrap(row.prover) = row.proposer
                   /\ Unwrap(row.is_proved_by_proposer) = TRUE
           /\ Unwrap(row.is_proved_by_proposer)
                = (Unwrap(row.prover) = row.proposer)

RowsProvedBy(tx) ==
    {id \in DOMAIN batch :
        batch[id].prove_tx = Some(TxHashToString(tx.transaction_hash))}

RECURSIVE SumProveFee(_)
SumProveFee(ids) ==
    IF ids = {}
    THEN 0
    ELSE LET id == CHOOSE i \in ids : TRUE
         IN ParseU128(Unwrap(batch[id].prove_fee)) + SumProveFee(ids \ {id})

\* C8: for a proof transaction of fee F that references n batch ids, every
\* row whose proof it is stores prove_fee = floor(F / n), n counting the ids
\* that have no row too, and the shares stored for the transaction sum to at
\* most F.
C8_ProveFeeIsFloorOfSplit ==
    \A b \in TxBlocks(l1_chain, "proved") :
        LET tx == Unwrap(l1_chain[b].proved)
            F == tx.gas_used * tx.effective_gas_price
                 + (IF IsSome(tx.blob_gas_used) /\ IsSome(tx.blob_gas_price)
                    THEN Unwrap(tx.blob_gas_used) * Unwrap(tx.blob_gas_price)
                    ELSE 0)
            n == Len(tx.batchIds)
        IN /\ \A id \in RowsProvedBy(tx) :
                LET share == ParseU128(Unwrap(batch[id].prove_fee))
                IN n * share <= F /\ F < n * (share + 1)
           /\ SumProveFee(RowsProvedBy(tx)) <= F

\* C8 witness: a transaction of fee 3 references two ids, one of them
\* without a row, and the row of the other stores the share 1
C8_Witness ==
    \E b \in TxBlocks(l1_chain, "proved") :
        LET tx == Unwrap(l1_chain[b].proved)
        IN /\ Len(tx.batchIds) = 2
           /\ get_tx_eth_price(tx) = 3
           /\ \E i \in 1..2 : tx.batchIds[i] \notin DOMAIN batch
           /\ \E id \in RowsProvedBy(tx) :
                 batch[id].prove_fee = Some(U128ToString(1))

AllOrNone(row) ==
    \/ \A c \in ProofColumns : row[c] = None
    \/ \A c \in ProofColumns : IsSome(row[c])

\* C9: the six proof columns of a row are all null or all non-null after
\* every step; a row that a step creates has them all null; and a row that
\* has them non-null keeps them non-null through every step.
C9_ProofFieldsAreAtomic ==
    [][/\ \A id \in DOMAIN batch' :
             /\ AllOrNone(batch'[id])
             /\ id \notin DOMAIN batch
                  => \A c \in ProofColumns : batch'[id][c] = None
       /\ \A id \in ProvedIds :
             id \in DOMAIN batch' /\ IsProved(batch'[id])]_vars

\* C9 witness: the Proposal Processor has gone again over the window of the
\* proposal of a row that is already proved
C9_Witness ==
    /\ pc = "proposed"
    /\ logs = <<>>
    /\ \E id \in ProvedIds :
          \E b \in ProposedIn(id) : from_block <= b /\ b <= to_block

StatusArgs ==
    [indexed_l1_block |-> to_block, proposed_batch_id |-> proposed[1],
     proposed_block_id |-> proposed[2], proved_batch_id |-> proved[1],
     proved_block_id |-> proved[2]]

\* the step of update_status, and the one that wrote
StatusStep == pc = "status" /\ pc' = "pace"

StatusWritten == StatusStep /\ status' # status

\* C11: an update_status that succeeds sets every field whose argument is
\* not 0 to the argument and leaves every field whose argument is 0 as it
\* was; with five 0 arguments the row stays as it is.
C11_UpdateIsPartialMerge ==
    [][/\ StatusWritten =>
             \A c \in StatusColumns :
                 Unwrap(status')[c] = IF StatusArgs[c] # 0
                                      THEN StatusArgs[c]
                                      ELSE Unwrap(status)[c]
       /\ update_status(status', 0, 0, 0, 0, 0) = status']_vars

\* C11 witness: a write with the proposal maxima 0 has kept the stored
\* maxima of an earlier window and moved the indexed block
C11_Witness ==
    /\ pc = "pace"
    /\ proposed = <<0, 0>>
    /\ IsSome(status)
    /\ Unwrap(status).indexed_l1_block = to_block
    /\ Unwrap(status).proposed_batch_id > 0
    /\ Unwrap(status).proposed_block_id > 0

\* C12: a turn of the Proposal Processor on an event whose batch id has a
\* row leaves the whole table as it is, goes on to the next event without
\* ending the process, and counts the event in the maxima it returns.
C12_DuplicateInsertIsTolerated ==
    [][(pc = "proposed" /\ logs # <<>> /\ InsertFits(Head(logs))
           /\ Head(logs).batchId \in DOMAIN batch /\ exit' = exit)
          => /\ batch' = batch
             /\ pc' = "proposed"
             /\ logs' = Tail(logs)
             /\ proposed'[1] >= Head(logs).batchId
             /\ proposed'[2] >= Head(logs).lastBlockId]_vars

\* C12 witness: the Proposal Processor has finished a range that held the
\* id of a row whose proof columns are set, and the row still has them
C12_Witness ==
    /\ pc = "proved"
    /\ proposed = <<1, 1>>
    /\ ProposedIn(1) = {2, 3}
    /\ from_block = 2
    /\ to_block >= 3
    /\ 1 \in DOMAIN batch
    /\ IsProved(batch[1])

\* the batch ids no event above the start block proposes
NeverIndexed(ids) ==
    {id \in ids : \A b \in ProposedIn(id) : b <= config.l1_start_block}

\* C13: a turn of the Proof Processor on a batch id without a row changes
\* no row and no maximum, creates no row, and goes on with the next id or
\* event; no id that was never proposed above the start block gets a row.
C13_UnknownBatchIsSkipped ==
    [][/\ (pc = "proved" /\ logs # <<>> /\ FitsI64(Head(batch_ids))
              /\ Head(batch_ids) \notin DOMAIN batch /\ exit' = exit)
           => /\ batch' = batch
              /\ proved' = proved
              /\ pc' = "proved"
              /\ IF Len(batch_ids) > 1
                 THEN batch_ids' = Tail(batch_ids) /\ logs' = logs
                 ELSE logs' = Tail(logs)
       /\ \A b \in TxBlocks(l1_chain, "proved") :
              LET ids == Unwrap(l1_chain[b].proved).batchIds
              IN \A i \in 1..Len(ids) :
                    ids[i] \in NeverIndexed({ids[i]})
                        => ids[i] \notin DOMAIN batch']_vars

\* C13 witness: the checkpoint is written past a window whose proof names
\* a batch without a row first and a batch with a row second, and the
\* second is proved
C13_Witness ==
    /\ IsSome(status)
    /\ \E b \in TxBlocks(l1_chain, "proved") :
          LET ids == Unwrap(l1_chain[b].proved).batchIds
          IN /\ Len(ids) = 2
             /\ ids[1] \notin DOMAIN batch
             /\ ids[2] \in ProvedIds
             /\ Unwrap(status).indexed_l1_block >= b
             /\ Unwrap(status).proved_batch_id = ids[2]

\* the progress a start of the process loads from the store
LoadedProgress ==
    Max(get_indexed_l1_block(status), config.l1_start_block)

\* the step that computes a window, and the step of a failed update_status
WindowStep == pc = "loop" /\ pc' \in {"proposed", "pace"}

StatusFailed == pc = "status" /\ pc' # "down" /\ status' = status

FatalInWindow ==
    pc \in {"loop", "proposed", "proved"} /\ exit' = "panic" /\ pc' # pc

\* C15: a fatal error at the head read or in a processor ends the process
\* and changes neither the status row nor a batch row; inside a processor
\* the progress in memory and the persisted progress are both below the end
\* of the window.
C15_FatalKeepsCheckpoint ==
    [][FatalInWindow
          => /\ pc' = "down"
             /\ status' = status
             /\ batch' = batch
             /\ pc \in {"proposed", "proved"}
                  => /\ indexed_l1_block < from_block
                     /\ get_indexed_l1_block(status') < from_block
                     /\ from_block <= to_block]_vars

\* C15 witness: the process ended in a panic inside the Proof Processor of
\* a window whose proposal was inserted: the row is there, the checkpoint
\* is below its block
C15_Witness ==
    /\ pc = "down"
    /\ exit = "panic"
    /\ \E id \in DOMAIN batch :
          /\ ~IsProved(batch[id])
          /\ \E b \in ProposedIn(id) :
                /\ get_indexed_l1_block(status) < b
                /\ IsSome(l1_chain[b].proved)

\* C16 as claimed: the long sleep when the head is at or above progress +
\* step, one interval otherwise.
C16_LongSleepWhenBehind ==
    pc = "sleep" =>
        sleep_secs =
            IF Len(l1_chain) >= indexed_l1_block + config.indexing_step
            THEN config.indexing_step * config.sleep_duration_sec
            ELSE config.sleep_duration_sec

\* C16 amended: the loop sleeps step x sleep_duration_sec when the head is
\* below progress + step (the indexer has caught up) and one
\* sleep_duration_sec when the head is at or above progress + step.
C16_LongSleepWhenCaughtUp ==
    pc = "sleep" =>
        sleep_secs =
            IF Len(l1_chain) < indexed_l1_block + config.indexing_step
            THEN config.indexing_step * config.sleep_duration_sec
            ELSE config.sleep_duration_sec

\* C16 witness: with step 2 and the head at exactly progress + step the
\* loop sleeps one interval
C16_Witness ==
    /\ pc = "sleep"
    /\ config.indexing_step = 2
    /\ Len(l1_chain) = indexed_l1_block + config.indexing_step
    /\ sleep_secs = config.sleep_duration_sec

MaxOver(S) == IF S = {} THEN 0 ELSE CHOOSE m \in S : \A n \in S : n <= m

\* the BatchProposed events of the current window
WindowProposals ==
    {Unwrap(l1_chain[b].proposed) :
        b \in {n \in TxBlocks(l1_chain, "proposed") :
                  from_block <= n /\ n <= to_block}}

\* the batch ids the BatchesProved events of the current window name
WindowProvedIds ==
    UNION {{Unwrap(l1_chain[b].proved).batchIds[i] :
               i \in 1..Len(Unwrap(l1_chain[b].proved).batchIds)} :
           b \in {n \in TxBlocks(l1_chain, "proved") :
                     from_block <= n /\ n <= to_block}}

ProposalMaximaAreExact ==
    proposed = <<MaxOver({e.batchId : e \in WindowProposals}),
                 MaxOver({e.lastBlockId : e \in WindowProposals})>>

\* C17 as claimed: the Proposal Processor returns the maxima over the
\* proposal events of the range, and the Proof Processor returns the
\* maximum over all the batch ids the proof events of the range name.
C17_MaximaOverAllReferenced ==
    pc = "status" =>
        /\ ProposalMaximaAreExact
        /\ proved[1] = MaxOver(WindowProvedIds)

\* C17 amended: the Proposal Processor returns the maxima over the proposal
\* events of the range; the Proof Processor returns the maximum batch id
\* and the maximum last block id over the named ids whose row the lookup
\* returned; each returns 0 when there is no such event or id.
C17_MaximaOverFoundRows ==
    pc = "status" =>
        /\ ProposalMaximaAreExact
        /\ handled \subseteq WindowProvedIds \cap DOMAIN batch
        /\ proved = <<MaxOver(handled),
                      MaxOver({batch[id].last_block_id : id \in handled})>>
        /\ WindowProposals = {} => proposed = <<0, 0>>
        /\ WindowProvedIds = {} => proved = <<0, 0>>

\* C17 witness: a range whose proof names a batch without a row and a batch
\* with one; the maxima are those of the second
C17_Witness ==
    /\ pc = "status"
    /\ proposed[1] > 0
    /\ handled # {}
    /\ WindowProvedIds \ DOMAIN batch # {}
    /\ proved[1] = MaxOver(handled)

\* the balances of a row's coinbase at the two ends of the row's span
BalanceAfter(row) ==
    L2Balance(l1_chain, AddressFromStr(row.coinbase), row.last_block_id)

BalanceBefore(row) ==
    L2Balance(l1_chain, AddressFromStr(row.coinbase),
              row.last_block_id - row.block_count)

\* C18: on every proved row l2_fee_earned is the balance of the coinbase at
\* last_block_id minus its balance at last_block_id - block_count, for
\* every balance history; no value that wrapped around is stored.
C18_FeeEarnedIsBalanceDifference ==
    \A id \in ProvedIds :
        LET row == batch[id]
        IN /\ row.block_count <= row.last_block_id
           /\ BalanceBefore(row) <= BalanceAfter(row)
           /\ ParseU128(Unwrap(row.l2_fee_earned))
                = BalanceAfter(row) - BalanceBefore(row)

\* the blocks with a proposal that insert_batch cannot convert or a proof
\* that names an id the lookup cannot convert
TooWide(b) ==
    \/ /\ IsSome(l1_chain[b].proposed)
       /\ LET e == Unwrap(l1_chain[b].proposed)
          IN e.batchId > I64Max \/ e.proposedAt > I64Max
                \/ e.lastBlockId > I64Max
    \/ /\ IsSome(l1_chain[b].proved)
       /\ \E i \in 1..Len(Unwrap(l1_chain[b].proved).batchIds) :
             LET id == Unwrap(l1_chain[b].proved).batchIds[i]
             IN id > I64Max

NothingTruncated ==
    /\ \A id \in DOMAIN batch :
          LET row == batch[id]
          IN /\ row.batch_id <= I64Max
             /\ row.proposed_at <= I64Max
             /\ row.last_block_id <= I64Max
             /\ \E b \in ProposedIn(id) :
                   LET e == Unwrap(l1_chain[b].proposed)
                   IN /\ row.batch_id = e.batchId
                      /\ row.proposed_at = e.proposedAt
                      /\ row.last_block_id = e.lastBlockId
             /\ IsProved(row) =>
                   /\ ParseU128(Unwrap(row.l2_fee_earned)) <= U128Max
                   /\ BalanceAfter(row) - BalanceBefore(row) <= U128Max
    /\ \A b \in 1..Len(l1_chain) :
          (b > config.l1_start_block /\ TooWide(b))
              => /\ get_indexed_l1_block(status) < b
                 /\ indexed_l1_block < b

\* the Proof Processor is at a batch id whose row has a balance difference
\* above u128::MAX
FeeTooWide ==
    /\ pc = "proved"
    /\ logs # <<>>
    /\ Head(batch_ids) \in DOMAIN batch
    /\ BalanceAfter(batch[Head(batch_ids)])
          - BalanceBefore(batch[Head(batch_ids)]) > U128Max

\* C19: no row holds an id, a timestamp or a last block id above i64::MAX
\* or other than the event's, no proved row holds a fee above u128::MAX,
\* and neither progress passes the block of an event with an id, a
\* timestamp or a last block id above i64::MAX.  The turn of a processor on
\* such an event ends the process and writes nothing, and so does the turn
\* of the Proof Processor that computes a balance difference above
\* u128::MAX for the row it read.
C19_OverflowIsFatal ==
    [][/\ NothingTruncated'
       /\ (pc = "proposed" /\ logs # <<>> /\ ~InsertFits(Head(logs)))
            => pc' = "down" /\ batch' = batch /\ status' = status
       /\ (pc = "proved" /\ logs # <<>> /\ Head(batch_ids) > I64Max)
            => pc' = "down" /\ batch' = batch /\ status' = status
       /\ FeeTooWide
            => /\ batch' = batch
               /\ status' = status
               /\ handled' \subseteq handled
               /\ pc' = "down" \/ proved' = proved]_vars

\* C19 witness: the process ended in a panic on the proof of a row whose
\* balance grew by u128::MAX + 1; the row is there, not proved, and the
\* checkpoint is below the proof
C19_Witness ==
    /\ pc = "down"
    /\ exit = "panic"
    /\ 1 \in DOMAIN batch
    /\ ~IsProved(batch[1])
    /\ BalanceAfter(batch[1]) - BalanceBefore(batch[1]) = U128Max + 1
    /\ get_indexed_l1_block(status) = 3

\* a start of the process
StartStep == pc = "down" /\ pc' = "loop"

FeeOf(row) == ParseU128(row.propose_fee)

\* the sum of the propose fees of the rows `ids` of the batch table
RECURSIVE SumFees(_)
SumFees(ids) ==
    IF ids = {} THEN 0
    ELSE LET id == CHOOSE i \in ids : TRUE
         IN FeeOf(batch[id]) + SumFees(ids \ {id})

\* a wei amount as ETH: floor(w / 10^18), a dot, w mod 10^18 in 18 digits
EthString(w) ==
    LET unit == 10 ^ EthDecimals
        Fraction == [i \in 1..EthDecimals |->
                        DigitChar[(((w % unit) \div (10 ^ (EthDecimals - i)))
                                       % 10) + 1]]
    IN U256ToString(w \div unit) \o <<".">> \o Fraction \o <<" ETH">>

\* the other side of a batch in a ledger
Counterparty(operation, row) ==
    IF operation = "Debit" THEN row.coinbase ELSE row.proposer

\* the batches of a ledger of `req.address` over [req.from, req.to]
LedgerRows(operation, req) ==
    {id \in DOMAIN batch :
        /\ req.from <= id
        /\ id <= req.to
        /\ IF operation = "Debit"
           THEN /\ batch[id].proposer = req.address
                /\ batch[id].coinbase # req.address
           ELSE /\ batch[id].coinbase = req.address
                /\ batch[id].proposer # req.address}

\* the batches of a ledger that fall under key k
GroupRows(operation, req, k) ==
    {id \in LedgerRows(operation, req) :
        Counterparty(operation, batch[id]) = k}

\* the sum of the totals of the groups `keys`
RECURSIVE SumGroups(_, _, _)
SumGroups(operation, req, keys) ==
    IF keys = {} THEN 0
    ELSE LET k == CHOOSE x \in keys : TRUE
         IN SumFees(GroupRows(operation, req, k))
            + SumGroups(operation, req, keys \ {k})

\* `ledger` is the ledger of `operation` for the request
LedgerIsExact(ledger, operation, req) ==
    LET keys == {Counterparty(operation, batch[id]) :
                    id \in LedgerRows(operation, req)}
    IN /\ {g.address : g \in ledger.addresses} = keys
       /\ Cardinality(ledger.addresses) = Cardinality(keys)
       /\ \A g \in ledger.addresses :
             /\ {g.batches[i] : i \in 1..Len(g.batches)}
                    = {batch[id] : id \in GroupRows(operation, req, g.address)}
             /\ Len(g.batches)
                    = Cardinality(GroupRows(operation, req, g.address))
             /\ g.total_fee
                    = EthString(SumFees(GroupRows(operation, req, g.address)))
       /\ ledger.total_fee = EthString(SumGroups(operation, req, keys))

\* the request was answered with the two ledgers
Answered == IsSome(response) /\ Unwrap(response).ok

\* the request was answered with a request error
Rejected == IsSome(response) /\ ~Unwrap(response).ok

\* C21: in every answer to an accounting request the debit ledger holds
\* exactly the batches of the range with proposer = address and coinbase #
\* address, grouped by coinbase, the credit ledger exactly those with
\* coinbase = address and proposer # address, grouped by proposer; the total
\* of a group is the sum of the propose fees of its batches and the total of
\* a ledger the sum of the totals of its groups.
C21_LedgersAreExact ==
    Answered =>
        /\ LedgerIsExact(Unwrap(response).debit, "Debit", Unwrap(request))
        /\ LedgerIsExact(Unwrap(response).credit, "Credit", Unwrap(request))

\* C21 witness: an answer whose debit ledger has a group of two batches,
\* with a total of one ETH or more, and whose credit ledger is not empty
C21_Witness ==
    /\ Answered
    /\ \E g \in Unwrap(response).debit.addresses :
          /\ Len(g.batches) = 2
          /\ g.total_fee[1] # "0"
    /\ Unwrap(response).credit.addresses # {}

\* C22: the rendering of a wei amount w is the decimal string of
\* floor(w / 10^18), a dot, w mod 10^18 left-padded with zeros to 18 digits,
\* and " ETH".
C22_RenderingIsExact ==
    (IsSome(request) /\ IsSome(response))
        => Unwrap(response) = EthString(Unwrap(request))

\* C22 witness: the largest amount below one ETH is rendered with the
\* integer part 0
C22_Witness ==
    /\ IsSome(response)
    /\ Unwrap(request) = 10 ^ EthDecimals - 1
    /\ Unwrap(response)[1] = "0"
    /\ Unwrap(response)[2] = "."
    /\ Len(Unwrap(response)) = EthDecimals + 3

\* every id of [from, to] has a row
RangeIsWhole(req) == \A id \in req.from..req.to : id \in DOMAIN batch

\* the answer the rows of the table give to the request
AnsweredFromRows(req) ==
    /\ Answered
    /\ LedgerIsExact(Unwrap(response).debit, "Debit", req)
    /\ LedgerIsExact(Unwrap(response).credit, "Credit", req)

\* C23: a request with to <= from is rejected; with the integrity check a
\* request is rejected unless every id of [from, to] has a row, and is
\* answered when it has; without the check it is answered from the rows
\* that exist.  No request changes a table, and after a rejection the
\* service returns the error and takes the next request.
C23_RequestIsValidated ==
    /\ [](IsSome(request) =>
            LET req == Unwrap(request)
            IN /\ req.to <= req.from => Rejected
               /\ (req.to > req.from /\ req.check_integrity = Some(TRUE))
                     => IF RangeIsWhole(req)
                        THEN AnsweredFromRows(req) ELSE Rejected
               /\ (req.to > req.from /\ req.check_integrity # Some(TRUE))
                     => AnsweredFromRows(req))
    /\ [](Rejected => ENABLED Reply)
    /\ [](request = None => ENABLED Accounting)
    /\ [][batch' = batch /\ status' = status]_vars

\* C23 witness: a request with the integrity check over a range with a
\* missing id is rejected, and the table still has its rows
C23_Witness ==
    /\ Rejected
    /\ Unwrap(request).to > Unwrap(request).from
    /\ Unwrap(request).check_integrity = Some(TRUE)
    /\ ~RangeIsWhole(Unwrap(request))
    /\ \E id \in DOMAIN batch :
          Unwrap(request).from <= id /\ id <= Unwrap(request).to

\* C24: on every proved row is_profitable is true exactly when
\* l2_fee_earned >= propose_fee + prove_fee; a row that breaks even is
\* served as profitable.
C24_ProfitableWhenBreakEven ==
    \A id \in ProvedIds :
        LET row == batch[id]
            earned == ParseU128(Unwrap(row.l2_fee_earned))
            cost == ParseU128(row.propose_fee) + ParseU128(Unwrap(row.prove_fee))
        IN Unwrap(row.is_profitable) = (earned >= cost)

\* the head the iteration read allows no window: head <= window end
NoWindow ==
    Len(l1_chain)
        <= ToBlock(FromBlock(indexed_l1_block), config.indexing_step)

\* C27: a window is entered only when the head read at the start of the
\* iteration is strictly above the window's end, and no processor asks for
\* a block above that head; an iteration that reads a head at or below the
\* window's end runs no processor and leaves the progress in memory, the
\* checkpoint and the batch table as they were.
C27_HeadGuard ==
    [][/\ (pc = "loop" /\ pc' = "proposed") => Len(l1_chain) > to_block'
       /\ \A b \in DOMAIN scanned'.proposed : b < Len(l1_chain')
       /\ \A b \in DOMAIN scanned'.proved : b < Len(l1_chain')
       /\ (pc = "loop" /\ NoWindow /\ l1_chain' = l1_chain)
             => /\ pc' \in {"pace", "down"}
                /\ scanned' \in {scanned, NoScans}
                /\ batch' = batch
                /\ status' = status
                /\ pc' = "pace" => indexed_l1_block' = indexed_l1_block
       /\ pc \in {"pace", "sleep"}
             => /\ batch' = batch
                /\ status' = status
                /\ pc' # "down" => indexed_l1_block' = indexed_l1_block]_vars

\* C27 witness: the iteration read a head equal to the window's end and went
\* to its sleep with nothing processed
C27_Witness ==
    /\ pc = "pace"
    /\ to_block = Len(l1_chain)
    /\ from_block = indexed_l1_block + 1
    /\ scanned = NoScans
    /\ indexed_l1_block = loaded

\* C29: once the checkpoint is at the end of a window, every batch id that a
\* proof event of the window names and that had its row when the event was
\* handled has all its proof fields set.
C29_NoProofIsLost ==
    (pc = "pace" /\ to_block > 0 /\ get_indexed_l1_block(status) = to_block)
        => \A id \in WindowProvedIds \cap DOMAIN batch : IsProved(batch[id])

\* the indexed block of the stored checkpoint
Persisted == get_indexed_l1_block(status)

ScannedOnce(counts, last) ==
    /\ DOMAIN counts = (loaded + 1)..last
    /\ \A b \in DOMAIN counts : counts[b] = 1

\* C28: in one lifetime of the process the windows follow one another
\* without a gap and without an overlap, the first one block after the
\* progress loaded at the start: each processor has asked for every block
\* above the loaded progress up to the progress in memory exactly once, and
\* for no block twice.
C28_WindowsTileTheChain ==
    pc # "down" =>
        /\ pc \in {"loop", "pace", "sleep"}
              => /\ ScannedOnce(scanned.proposed, indexed_l1_block)
                 /\ ScannedOnce(scanned.proved, indexed_l1_block)
        /\ pc = "proposed"
              => /\ ScannedOnce(scanned.proposed, to_block)
                 /\ ScannedOnce(scanned.proved, indexed_l1_block)
                 /\ from_block = indexed_l1_block + 1
        /\ pc \in {"proved", "status"}
              => /\ ScannedOnce(scanned.proposed, to_block)
                 /\ ScannedOnce(scanned.proved, to_block)
                 /\ from_block = indexed_l1_block + 1

\* C28 witness: a process that started from the start block and handled two
\* windows, one after the other
C28_Witness ==
    /\ pc = "loop"
    /\ loaded = config.l1_start_block
    /\ DOMAIN scanned.proposed = 2..5
    /\ DOMAIN scanned.proved = 2..5
    /\ indexed_l1_block = 5

\* index_batch_proposed over `remaining` with no fault: the table it leaves
RECURSIVE RunProposed(_, _)
RunProposed(table, remaining) ==
    IF remaining = <<>> THEN table
    ELSE LET log == Head(remaining)
         IN RunProposed(insert_batch(table, log,
                                     TxHashToString(log.transaction_hash),
                                     log.from, get_tx_eth_price(log)),
                        Tail(remaining))

\* index_batch_proved over the ids of one log with no fault
RECURSIVE RunProvedIds(_, _, _)
RunProvedIds(table, log, ids) ==
    IF ids = <<>> THEN table
    ELSE LET found == get_batch_by_id(table, Head(ids))
         IN IF found = None
            THEN RunProvedIds(table, log, Tail(ids))
            ELSE LET row == Unwrap(found)
                     fee == CHOOSE f \in
                                calculate_l2_fee_earned(l1_chain, row.coinbase,
                                                        row.last_block_id,
                                                        row.block_count) :
                                IsSome(f)
                 IN RunProvedIds(
                        update_batch(table,
                                     ProvedRow(row, log, Unwrap(fee),
                                               config.proving_window)),
                        log, Tail(ids))

\* index_batch_proved over `remaining` with no fault
RECURSIVE RunProved(_, _)
RunProved(table, remaining) ==
    IF remaining = <<>> THEN table
    ELSE RunProved(RunProvedIds(table, Head(remaining),
                                Head(remaining).batchIds),
                   Tail(remaining))

\* the batch table of the run that is never stopped and meets no fault, when
\* its progress is `progress`
RECURSIVE CrashFreeTable(_)
CrashFreeTable(progress) ==
    IF progress <= config.l1_start_block THEN <<>>
    ELSE LET to == progress
             from == to - config.indexing_step
         IN RunProved(RunProposed(CrashFreeTable(from - 1),
                                  GetLogs(l1_chain, "proposed", from, to)),
                      GetLogs(l1_chain, "proved", from, to))

\* the L1 block of a stored transaction hash
BlockOfTx(tx_hash) == tx_hash[2][1]

\* the table holds nothing of a block above b
NothingAbove(b) ==
    \A id \in DOMAIN batch :
        /\ BlockOfTx(batch[id].propose_tx) <= b
        /\ IsSome(batch[id].prove_tx)
              => BlockOfTx(Unwrap(batch[id].prove_tx)) <= b

\* C25: a process that was stopped and started again from the persisted
\* checkpoint has, when its progress has passed block N and it has written
\* nothing of a block above N, the batch table of the run that is never
\* stopped when its progress has passed N.
C25_CrashResumeEquivalence ==
    (/\ pc = "pace"
     /\ indexed_l1_block = to_block
     /\ loaded > config.l1_start_block
     /\ NothingAbove(indexed_l1_block))
        => batch = CrashFreeTable(indexed_l1_block)

\* the end of the last window a chain of MaxHead blocks lets the loop enter
LastWindowEnd ==
    LET width == config.indexing_step + 1
    IN config.l1_start_block
       + ((MaxHead - 1 - config.l1_start_block) \div width) * width

\* the checkpoint write after a finished window succeeded
WriteSucceeded ==
    (pc = "pace" /\ indexed_l1_block = to_block)
        => Persisted = indexed_l1_block

\* the head is above the end of the next window
WindowIsReady ==
    /\ pc = "loop"
    /\ HeadIsPast(Len(l1_chain),
                  ToBlock(FromBlock(indexed_l1_block), config.indexing_step))

\* C30: when the loop is scheduled fairly, no fatal error occurs and the
\* head keeps growing, the progress in memory eventually reaches every block
\* b above the start block (up to the last window the bounded chain allows);
\* from any moment at which the progress is below b, if the checkpoint
\* writes succeed from then on, the persisted indexed block eventually
\* reaches b; and a loop that finds the head above the end of its window
\* processes the window.
C30_ProgressIsLive ==
    /\ \A b \in 2..MaxHead :
          <>(b > LastWindowEnd \/ indexed_l1_block >= b)
    /\ \A b \in 2..MaxHead :
          []((indexed_l1_block < b /\ b <= LastWindowEnd /\ []WriteSucceeded)
                => <>(Persisted >= b))
    /\ WindowIsReady ~> pc = "proposed"

\* C30 witness: the progress and the checkpoint are at the end of the last
\* window, after a block with a batch and its proof was handled
C30_Witness ==
    /\ pc = "sleep"
    /\ indexed_l1_block = LastWindowEnd
    /\ Persisted = LastWindowEnd
    /\ ProvedIds # {}
    /\ exit = "none"
====
